---- MODULE Spec2Model ----
(***************************************************************************)
(* Model of src/base/engine.py: the SimEngine class (constructor, the      *)
(* n_dim property, prc_generator) and the jitted recurrence                 *)
(* _fast_sim_loop_geo_brownian.                                             *)
(*                                                                          *)
(* Numbers.  Prices are kept in the log domain so that the arithmetic is    *)
(* exact over the integers: a price is base * exp(drift2/2 + SUM_d vol[d] * *)
(* sqrt(d)), or NaN.  Cholesky factors are computed by the column           *)
(* algorithm; the rho inputs are those on which it either fails or has an   *)
(* integral factor.  Floating-point rounding is not modelled.               *)
(***************************************************************************)
EXTENDS Integers, Sequences, FiniteSets, TLC

VARIABLES engine, time_1, time_2, outcome, result, drew

vars == <<engine, time_1, time_2, outcome, result, drew>>

(* ------------------------------ bounds --------------------------------- *)
MaxDim == 2        \* longest sigma sequence
MaxT == 2          \* most evaluation times in one call

SigmaVals == {1, 2}
RVals == {1}
Times == {1, 2}    \* the evaluation times tried
S0Vals == {100}
Measured == {<<1, 2>>, <<2, 1>>}    \* (setup, evolution) readings of time.time() - tic

(* ------------------------------ values --------------------------------- *)
None == 0          \* the initial value of _time_1 and _time_2

NoEngine == [method |-> "NoEngine"]

NoResult == <<>>

Methods == {"GeoBrownian", "Heston"}
Keys == {"sigma", "r", "rho", "mu"}

(* --------------------------- input values ------------------------------ *)
\* sequences over S of length 1..n
SeqsUpTo(S, n) == UNION {[1..k -> S] : k \in 1..n}

\* the volatility vectors tried: lengths 1..MaxDim, entries in ascending order
SigmaSeqs == {s \in SeqsUpTo(SigmaVals, MaxDim) : \A i \in 1..(Len(s) - 1) : s[i] <= s[i + 1]}

\* sigma: a float, a list, or another iterable (a tuple)
SigmaInputs ==
    {[kind |-> "scalar", val |-> <<v>>] : v \in SigmaVals}
    \cup {[kind |-> k, val |-> s] : k \in {"list", "tuple"}, s \in SigmaSeqs}

\* r: a float, or a value that is not a number
RInputs == {[kind |-> "num", val |-> v] : v \in RVals} \cup {[kind |-> "str", val |-> 0]}

Min(a, b) == IF a < b THEN a ELSE b

Ident(k) == [i \in 1..k |-> [j \in 1..k |-> IF i = j THEN 1 ELSE 0]]
MinMat(k) == [i \in 1..k |-> [j \in 1..k |-> Min(i, j)]]
OffTwo(k) == [i \in 1..k |-> [j \in 1..k |-> IF i = j THEN 1 ELSE 2]]
Ones(k) == [i \in 1..k |-> [j \in 1..k |-> 1]]
NegIdent(k) == [i \in 1..k |-> [j \in 1..k |-> IF i = j THEN 0 - 1 ELSE 0]]
UpperFive(k) == [i \in 1..k |-> [j \in 1..k |-> IF i = j THEN 1 ELSE IF i < j THEN 5 ELSE 0]]
LowerTwo(k) == [i \in 1..k |-> [j \in 1..k |-> IF i = j THEN 1 ELSE IF i > j THEN 2 ELSE 0]]
Rect(k) == [i \in 1..k |-> [j \in 1..(k + 1) |-> IF i = j THEN 1 ELSE 0]]

SquareMats(k) == {Ident(k), MinMat(k), OffTwo(k), Ones(k), NegIdent(k), UpperFive(k), LowerTwo(k)}

\* rho: an np.matrix or a plain ndarray; square of size 2..MaxDim+1, or k x (k+1)
RhoInputs ==
    UNION {{[kind |-> t, rows |-> k, cols |-> k, a |-> m] : t \in {"matrix", "ndarray"}, m \in SquareMats(k)}
           \cup {[kind |-> "matrix", rows |-> k, cols |-> k + 1, a |-> Rect(k)]} : k \in 2..(MaxDim + 1)}

\* upper_t: a float, an iterable of floats, or a value np.diff cannot difference
UpperTInputs ==
    {[kind |-> "scalar", val |-> <<v>>] : v \in Times}
    \cup {[kind |-> "seq", val |-> s] : s \in SeqsUpTo(Times, MaxT)}
    \cup {[kind |-> "bad", val |-> <<>>]}

(* ------------------------- linear algebra ------------------------------ *)
RECURSIVE Inner(_, _, _)
\* sum over p in 1..m of u[p] * v[p]
Inner(u, v, m) == IF m = 0 THEN 0 ELSE u[m] * v[m] + Inner(u, v, m - 1)

Dot(L, i, j, m) == Inner(L[i], L[j], m)

ISqrt(v) == CHOOSE s \in 0..v : s * s <= v /\ (s + 1) * (s + 1) > v

RECURSIVE CholFrom(_, _, _, _)
\* column j of the factor from the lower triangle of a; fails on a pivot <= 0
CholFrom(a, k, j, L) ==
    IF j > k THEN [ok |-> TRUE, exact |-> TRUE, L |-> L]
    ELSE LET d == a[j][j] - Dot(L, j, j, j - 1)
         IN  IF d <= 0 THEN [ok |-> FALSE, exact |-> TRUE, L |-> L]
             ELSE LET s == ISqrt(d)
                      num(i) == a[i][j] - Dot(L, i, j, j - 1)
                      L2 == [i \in 1..k |-> [p \in 1..k |->
                                IF p # j THEN L[i][p]
                                ELSE IF i = j THEN s
                                ELSE IF i > j THEN num(i) \div s ELSE 0]]
                  IN  IF s * s = d /\ \A i \in (j + 1)..k : num(i) % s = 0
                      THEN CholFrom(a, k, j + 1, L2)
                      ELSE [ok |-> TRUE, exact |-> FALSE, L |-> L]

CholeskyNoPivotCheck(rho) ==
    IF rho.rows # rho.cols THEN [ok |-> FALSE, exact |-> TRUE, L |-> <<>>]
    ELSE [ok |-> TRUE, exact |-> TRUE, L |-> rho.a]

\* np.linalg.cholesky: LinAlgError unless the array is square and the pivots are positive
cholesky(rho) ==
    IF rho.rows # rho.cols THEN [ok |-> FALSE, exact |-> TRUE, L |-> <<>>]
    ELSE CholFrom(rho.a, rho.rows, 1, [i \in 1..rho.rows |-> [j \in 1..rho.rows |-> 0]])

\* upper_r * x for an np.matrix upper_r (matrix product), or for the scalar 1
MatMul(L, x, n, T) == [i \in 1..n |-> [c \in 1..T |-> Inner(L[i], [p \in 1..n |-> x[p][c]], n)]]

Absent == [kind |-> "absent"]

\* the rho arguments tried with a sigma: every one when sigma is a list of two or
\* more; where prc_generator never reads rho, none, and the 2 x 2 identity with a float
RhoFor(sg) ==
    IF sg # Absent /\ sg.kind = "list" /\ Len(sg.val) > 1
    THEN {rh \in RhoInputs : cholesky(rh).exact} \cup {Absent}
    ELSE IF sg # Absent /\ sg.kind = "scalar"
    THEN {[kind |-> "matrix", rows |-> 2, cols |-> 2, a |-> Ident(2)], Absent}
    ELSE {Absent}

\* outcomes of np.random.normal(0, 1, [n, T]): all 0, all 1, or a single 1 at [0, 0]
DrawMats(n, T) ==
    {[a \in 1..n |-> [c \in 1..T |-> v]] : v \in {0, 1}}
    \cup {[a \in 1..n |-> [c \in 1..T |-> IF a = 1 /\ c = 1 THEN 1 ELSE 0]]}

(* --------------------------- the recurrence ---------------------------- *)
NaN(s0) == [base |-> s0, nan |-> TRUE, drift2 |-> 0, vol |-> [d \in Times |-> 0]]
Price0(s0) == [base |-> s0, nan |-> FALSE, drift2 |-> 0, vol |-> [d \in Times |-> 0]]

\* s * exp((r - sig^2/2) * t + sig * eps * sqrt(t)); sqrt of a negative t is NaN
GbmStep(s, sig, r, t, eps) ==
    IF s.nan \/ t < 0 THEN NaN(s.base)
    ELSE [s EXCEPT !.drift2 = @ + (2 * r - sig * sig) * t,
                   !.vol = [d \in Times |-> IF d = t THEN @[d] + sig * eps ELSE @[d]]]

\* numpy broadcasting of a length-1 array against a longer one
BLen(a, b) == IF a = 1 THEN b ELSE a
BAt(arr, i) == IF Len(arr) = 1 THEN arr[1] ELSE arr[i]

RECURSIVE SimLoop(_, _, _, _, _, _, _)
\* the for loop of _fast_sim_loop_geo_brownian from step i on; prc is the list so far
SimLoop(s_array, t_diff, sigma_array, r, epsilon, i, prc) ==
    IF i > Len(t_diff) THEN prc
    ELSE LET eps_cur == [a \in 1..Len(epsilon) |-> epsilon[a][i]]
             w == BLen(BLen(Len(s_array), Len(sigma_array)), Len(eps_cur))
             nxt == [a \in 1..w |-> GbmStep(BAt(s_array, a), BAt(sigma_array, a), r, t_diff[i], BAt(eps_cur, a))]
         IN  SimLoop(nxt, t_diff, sigma_array, r, epsilon, i + 1, Append(prc, nxt))

fast_sim_loop_geo_brownian(s_0, n, t_diff, sigma_array, r, epsilon) ==
    SimLoop([a \in 1..n |-> Price0(s_0)], t_diff, sigma_array, r, epsilon, 1, <<>>)

DiffNoPrepend(upper_t) ==
    [i \in 1..Len(upper_t) |-> upper_t[i] - (IF i = 1 THEN upper_t[1] ELSE upper_t[i - 1])]

\* np.diff(upper_t, prepend=0)
Diff(upper_t) == [i \in 1..Len(upper_t) |-> upper_t[i] - (IF i = 1 THEN 0 ELSE upper_t[i - 1])]

(* ------------------------------ SimEngine ------------------------------ *)
full_methods == {"GeoBrownian"}
full_kwarg_map == [m \in full_methods |-> {"sigma", "r", "rho"}]

MethodLegal(method) == method \in full_methods
KeyLegalAny(method, key) == TRUE
KeyLegal(method, key) == key \in full_kwarg_map[method]

\* the error __init__ raises for these arguments, "" when it raises none
InitErr(method, kwargs) ==
    IF ~MethodLegal(method) THEN "Illegal input of method!"
    ELSE IF \E key \in DOMAIN kwargs : ~KeyLegal(method, key) THEN "Illegal input of kwargs!"
    ELSE ""

\* the n_dim property, for an engine that has a sigma
n_dim(e) == IF e.kwargs["sigma"].kind = "list" THEN Len(e.kwargs["sigma"].val) ELSE 1

\* sigma_array of prc_generator: np.array of an iterable sigma, else of [sigma]
SigmaArray(e) == e.kwargs["sigma"].val

\* upper_t after the promotion of a scalar to a one-element list
Promote(ut) == ut.val

\* the first error prc_generator raises before the random draw, "" when none
SetupErr(e, ut) ==
    IF "sigma" \notin DOMAIN e.kwargs THEN "KeyError"
    ELSE IF "r" \notin DOMAIN e.kwargs THEN "KeyError"
    ELSE IF ut.kind = "bad" THEN "TypeError"
    ELSE IF n_dim(e) > 1
         THEN IF "rho" \notin DOMAIN e.kwargs THEN "KeyError"
              ELSE LET rho == e.kwargs["rho"]
                   IN  IF ~cholesky(rho).ok THEN "LinAlgError"
                       ELSE IF rho.kind # "matrix" THEN "Illegal input type of rho"
                       ELSE IF rho.rows # rho.cols \/ rho.rows # n_dim(e)
                            THEN "Illegal input dimension of rho"
                       ELSE ""
         ELSE ""

\* epsilon = upper_r * x
Epsilon(e, x, T) ==
    IF n_dim(e) > 1 THEN MatMul(cholesky(e.kwargs["rho"]).L, x, n_dim(e), T) ELSE x

\* the error the jitted recurrence raises, "" when none
LoopErr(e) == IF e.kwargs["r"].kind = "num" THEN "" ELSE "TypingError"

SetupErrors == {"KeyError", "TypeError", "LinAlgError", "Illegal input type of rho",
                "Illegal input dimension of rho"}

\* _time_1 is assigned once the setup phase is through, _time_2 after the recurrence
Time1Accum(err, old, d1) == IF err \in SetupErrors THEN old ELSE old + d1
Time2Finally(err, old, d2) == d2
Time1After(err, old, d1) == IF err \in SetupErrors THEN old ELSE d1
Time2After(err, old, d2) == IF err = "" THEN d2 ELSE old

NoOutcome == [op |-> "none", err |-> "", setup |-> None, evo |-> None, ndim |-> 0,
              upper_t |-> <<>>, epsilon |-> <<>>, method |-> "", keys |-> {}]

Init ==
    /\ engine = NoEngine
    /\ time_1 = None
    /\ time_2 = None
    /\ outcome = NoOutcome
    /\ result = NoResult
    /\ drew = FALSE

\* SimEngine(method, s_0, **kwargs), by a caller that holds no engine
New ==
    /\ engine = NoEngine
    /\ outcome = NoOutcome
    /\ \E method \in Methods, s_0 \in S0Vals, sg \in SigmaInputs \cup {Absent},
          rr \in RInputs \cup {Absent}, mu \in {[kind |-> "num", val |-> 0], Absent} :
          \E rh \in RhoFor(sg) :
             LET given == [sigma |-> sg, r |-> rr, rho |-> rh, mu |-> mu]
                 kwargs == [key \in {k \in Keys : given[k] # Absent} |-> given[key]]
                 err == InitErr(method, kwargs)
             IN  /\ engine' = IF err = "" THEN [method |-> method, s_0 |-> s_0, kwargs |-> kwargs]
                              ELSE NoEngine
                 /\ outcome' = [NoOutcome EXCEPT !.op = "new", !.err = err, !.method = method,
                                                 !.keys = DOMAIN kwargs]
    /\ time_1' = None
    /\ time_2' = None
    /\ result' = NoResult
    /\ drew' = FALSE

\* the caller lets go of its engine (the driver rebinds sim_engine on every trial),
\* or of the error a failed construction raised
Discard ==
    /\ engine # NoEngine \/ outcome # NoOutcome
    /\ engine' = NoEngine
    /\ time_1' = None
    /\ time_2' = None
    /\ outcome' = NoOutcome
    /\ result' = NoResult
    /\ drew' = FALSE

\* a read of the n_dim property
NDim ==
    /\ engine # NoEngine
    /\ outcome' = IF "sigma" \in DOMAIN engine.kwargs
                  THEN [NoOutcome EXCEPT !.op = "n_dim", !.ndim = n_dim(engine)]
                  ELSE [NoOutcome EXCEPT !.op = "n_dim", !.err = "KeyError"]
    /\ result' = NoResult
    /\ drew' = FALSE
    /\ UNCHANGED <<engine, time_1, time_2>>

\* prc_generator(upper_t)
PrcGenerator ==
    /\ engine # NoEngine
    /\ \E ut \in UpperTInputs :
          LET serr == SetupErr(engine, ut)
              call == [NoOutcome EXCEPT !.op = "prc_generator", !.upper_t = Promote(ut)]
          IN  IF serr # ""
              THEN /\ outcome' = [call EXCEPT !.err = serr]
                   /\ time_1' = Time1After(serr, time_1, None)
                   /\ time_2' = Time2After(serr, time_2, None)
                   /\ result' = NoResult
                   /\ drew' = FALSE
              ELSE \E x \in DrawMats(n_dim(engine), Len(Promote(ut))) :
                      LET epsilon == Epsilon(engine, x, Len(Promote(ut)))
                          lerr == LoopErr(engine)
                          prc == IF lerr = ""
                                 THEN fast_sim_loop_geo_brownian(engine.s_0, n_dim(engine),
                                          Diff(Promote(ut)), SigmaArray(engine),
                                          engine.kwargs["r"].val, epsilon)
                                 ELSE NoResult
                      IN  /\ result' = prc
                          /\ drew' = TRUE
                          /\ \E d \in Measured :
                                /\ outcome' = [call EXCEPT !.err = lerr,
                                                           !.epsilon = IF lerr = "" THEN epsilon ELSE <<>>,
                                                           !.setup = d[1],
                                                           !.evo = IF lerr = "" THEN d[2] ELSE None]
                                /\ time_1' = Time1After(lerr, time_1, d[1])
                                /\ time_2' = Time2After(lerr, time_2, d[2])
    /\ UNCHANGED engine

Next == New \/ Discard \/ NDim \/ PrcGenerator

Spec == Init /\ [][Next]_vars

(* ------------------------ vocabulary of the claims ---------------------- *)
IsCall == outcome.op = "prc_generator"
Returned == IsCall /\ outcome.err = ""
Raised == IsCall /\ outcome.err # ""

Has(e, key) == e # NoEngine /\ key \in DOMAIN e.kwargs

\* sigma is a list of n > 1 volatilities and rho is supplied
MultiAsset(e) == Has(e, "sigma") /\ Has(e, "rho") /\ e.kwargs["sigma"].kind = "list"
                 /\ Len(e.kwargs["sigma"].val) > 1

IsNbyN(e) == e.kwargs["rho"].rows = Len(e.kwargs["sigma"].val)
             /\ e.kwargs["rho"].cols = Len(e.kwargs["sigma"].val)

Symmetric(rho) == \A i \in 1..rho.rows, j \in 1..rho.cols : rho.a[i][j] = rho.a[j][i]

RECURSIVE SortedSeq(_)
SortedSeq(S) == IF S = {} THEN <<>>
                ELSE LET m == CHOOSE x \in S : \A y \in S : x <= y
                     IN  <<m>> \o SortedSeq(S \ {m})

Without(sq, j) == [i \in 1..(Len(sq) - 1) |-> IF i < j THEN sq[i] ELSE sq[i + 1]]

RECURSIVE Det(_, _, _)
RECURSIVE DetSum(_, _, _, _)
\* determinant of the submatrix of a on the given rows and columns, along the first row
Det(a, rows, cols) == IF Len(rows) = 0 THEN 1 ELSE DetSum(a, rows, cols, Len(cols))
DetSum(a, rows, cols, j) ==
    IF j = 0 THEN 0
    ELSE (IF j % 2 = 1 THEN 1 ELSE 0 - 1) * a[rows[1]][cols[j]] * Det(a, Tail(rows), Without(cols, j))
         + DetSum(a, rows, cols, j - 1)

\* x' rho x >= 0 for every x: every principal minor of rho + rho' is >= 0
IsPSD(rho) ==
    LET sym == [i \in 1..rho.rows |-> [j \in 1..rho.cols |-> rho.a[i][j] + rho.a[j][i]]]
    IN  \A S \in SUBSET (1..rho.rows) : Det(sym, SortedSeq(S), SortedSeq(S)) >= 0

ZeroShocks == \A a \in DOMAIN outcome.epsilon : \A c \in DOMAIN outcome.epsilon[a] :
                 outcome.epsilon[a][c] = 0

\* s_0 * exp((r - sig^2/2) * t), as a price
Drifted(s_0, r, sig, t) == [Price0(s_0) EXCEPT !.drift2 = (2 * r - sig * sig) * t]

Ascending(sq) == sq[1] >= 0 /\ \A i \in 1..(Len(sq) - 1) : sq[i] <= sq[i + 1]

(* -------------------------------- claims -------------------------------- *)

\* C1: construction with a sigma list of n > 1 entries and a rho that is not n x n
\* fails with the dimension error, before any random draw and before any path; so
\* no engine with such parameters exists, and a call on one could only raise that
\* error, with nothing drawn and nothing returned.
C1_DimMismatchFailsConstruction ==
    /\ ~(MultiAsset(engine) /\ ~IsNbyN(engine))
    /\ (IsCall /\ MultiAsset(engine) /\ ~IsNbyN(engine))
          => outcome.err = "Illegal input dimension of rho" /\ ~drew /\ result = NoResult

\* C2: for n > 1 and a rho that is not n x n, the error raised is the dimension
\* error and never the decomposition failure (stated for the calls that get as far
\* as reading rho: r supplied, upper_t numeric).
C2_DimErrorNotDecomposition ==
    (IsCall /\ MultiAsset(engine) /\ ~IsNbyN(engine) /\ Has(engine, "r") /\ outcome.upper_t # <<>>)
        => outcome.err = "Illegal input dimension of rho"

\* C3: construction fails, and leaves no engine, whenever the method is not
\* GeoBrownian or a keyword is outside {sigma, r, rho}; an engine that exists holds
\* exactly the keywords it was given.
C3_IllegalConstructionFails ==
    /\ outcome.op = "new" =>
          /\ (outcome.method # "GeoBrownian" \/ ~(outcome.keys \subseteq {"sigma", "r", "rho"}))
                => outcome.err # "" /\ engine = NoEngine
          /\ engine # NoEngine => DOMAIN engine.kwargs = outcome.keys
    /\ engine # NoEngine =>
          engine.method = "GeoBrownian" /\ DOMAIN engine.kwargs \subseteq {"sigma", "r", "rho"}

C3_Witness ==
    /\ outcome.op = "new" /\ outcome.method = "GeoBrownian" /\ "mu" \in outcome.keys
    /\ outcome.err = "Illegal input of kwargs!" /\ engine = NoEngine

\* C4: a call that returns, made with T evaluation times on an engine whose n_dim
\* is n, returns T rows of n columns each.
C4_ShapeIsTByNDim ==
    Returned => /\ Len(result) = Len(outcome.upper_t)
                /\ \A t \in DOMAIN result : Len(result[t]) = n_dim(engine)

\* C5: n_dim is the length of sigma for every sequence kind, 1 for a scalar, and
\* always the length of the sigma_array prc_generator feeds the recurrence.
C5_NDimIsSigmaLength ==
    (outcome.op = "n_dim" /\ outcome.err = "") =>
        /\ engine.kwargs["sigma"].kind \in {"list", "tuple"}
              => outcome.ndim = Len(engine.kwargs["sigma"].val)
        /\ engine.kwargs["sigma"].kind = "scalar" => outcome.ndim = 1
        /\ outcome.ndim = Len(SigmaArray(engine))

\* C6: an engine that exists holds sigma and r, and rho when n > 1, and no n_dim
\* query or prc_generator call fails for a missing parameter.
C6_NoPartialConstruction ==
    /\ engine # NoEngine =>
          /\ Has(engine, "sigma") /\ Has(engine, "r")
          /\ n_dim(engine) > 1 => Has(engine, "rho")
    /\ outcome.err # "KeyError"

C8_ReturningCallOverwritesTimes ==
    [][IsCall' =>
          /\ outcome'.err = "" => time_1' = outcome'.setup /\ time_2' = outcome'.evo
          /\ outcome'.err \in SetupErrors => time_1' = time_1 /\ time_2' = time_2
          /\ outcome'.err = "TypingError" => time_1' = outcome'.setup /\ time_2' = time_2]_vars

C8_Witness ==
    /\ Returned /\ time_1 = outcome.setup /\ time_2 = outcome.evo
    /\ time_1 # None /\ time_2 # None /\ time_1 # time_2

\* C8 as stated: every call on an engine that already holds measurements replaces
\* both by measurements of its own.
C8_EveryCallOverwritesTimes ==
    [][(IsCall' /\ time_1 # None /\ time_2 # None) =>
          /\ outcome'.setup # None /\ time_1' = outcome'.setup
          /\ outcome'.evo # None /\ time_2' = outcome'.evo]_vars

\* C9 (amended): with all shocks zero and evaluation times that are non-negative
\* and never decrease, the value of every asset at every row t is
\* s_0 * exp((r - sigma^2/2) * upper_t[t]).
C9_ZeroShocksPureDrift ==
    (Returned /\ ZeroShocks /\ Ascending(outcome.upper_t)) =>
        \A t \in DOMAIN result : \A a \in DOMAIN result[t] :
            result[t][a] = Drifted(engine.s_0, engine.kwargs["r"].val,
                                   BAt(SigmaArray(engine), a), outcome.upper_t[t])

C9_Witness ==
    /\ Returned /\ ZeroShocks /\ Len(outcome.upper_t) = 2
    /\ 0 < outcome.upper_t[1] /\ outcome.upper_t[1] < outcome.upper_t[2]
    /\ n_dim(engine) = 2 /\ Len(result) = 2
    /\ result[2][2] = Drifted(engine.s_0, engine.kwargs["r"].val, engine.kwargs["sigma"].val[2],
                              outcome.upper_t[2])

\* C9 as stated: with all shocks zero the value of every asset at every row t is
\* s_0 * exp((r - sigma^2/2) * upper_t[t]), whatever the evaluation times.
C9_ZeroShocksPureDriftAnyTimes ==
    (Returned /\ ZeroShocks) =>
        \A t \in DOMAIN result : \A a \in DOMAIN result[t] :
            result[t][a] = Drifted(engine.s_0, engine.kwargs["r"].val,
                                   BAt(SigmaArray(engine), a), outcome.upper_t[t])

\* C10 (amended): a call that raises returns no path and leaves method, s_0, the
\* kwargs and time_2 as they were, and time_1 too unless it raised in the
\* recurrence, after the setup measurement was stored.
C10_RaisingCallLeavesEngine ==
    [][Raised' =>
          /\ engine' = engine /\ result' = NoResult /\ time_2' = time_2
          /\ outcome'.err \in SetupErrors => time_1' = time_1]_vars

C10_Witness ==
    /\ Raised /\ outcome.err = "TypeError" /\ result = NoResult
    /\ time_1 # None /\ time_2 # None

\* C10 as stated: a call that raises leaves method, s_0, kwargs, time_1 and time_2
\* all unchanged and returns no path.
C10_RaisingCallChangesNothing ==
    [][Raised' =>
          engine' = engine /\ result' = NoResult /\ time_1' = time_1 /\ time_2' = time_2]_vars

====
